---- MODULE Spec2Model ----
(***************************************************************************)
(* BookMind backend: the recommendation fan-out (services/ai_service.py),  *)
(* the cover resolver (services/cover_service.py) and the direct search    *)
(* (services/openlibrary_service.py), with the routes of routers/books.py. *)
(*                                                                         *)
(* Python values are tagged records: None, str (a sequence of characters   *)
(* or text tokens), list, int.  A JSON object is a TLA+ record whose       *)
(* DOMAIN is the set of keys it carries.                                   *)
(***************************************************************************)
EXTENDS Integers, Sequences, FiniteSets, TLC

\* ---------------------------------------------------------------- bounds
MaxCands == 3       \* candidates the AI step may return
MaxDocs == 2        \* documents in a bibliographic answer to a cover lookup
MaxRaw == 25        \* raw documents in a bibliographic answer to a search

\* ------------------------------------------------------- program constants
SearchTop == 20     \* data.get("docs", [])[:20]
SearchPage == 10    \* books[:10]

\* ------------------------------------------------------------ Python values
PyNone == [t |-> "none"]
PyStr(s) == [t |-> "str", v |-> s]
PyList(l) == [t |-> "list", v |-> l]
PyInt(n) == [t |-> "int", v |-> n]

\* Python truth value of a value
Truthy(x) ==
  CASE x.t = "none" -> FALSE
    [] x.t = "str" -> x.v # <<>>
    [] x.t = "list" -> x.v # <<>>
    [] x.t = "int" -> x.v # 0

\* dict.get(key, default)
Get(d, key, default) == IF key \in DOMAIN d THEN d[key] ELSE default

\* str.replace(ch, ''): drop every occurrence of the character ch
RECURSIVE Replace(_, _)
Replace(s, ch) ==
  IF s = <<>> THEN <<>>
  ELSE IF Head(s) = ch THEN Replace(Tail(s), ch)
       ELSE <<Head(s)>> \o Replace(Tail(s), ch)

\* isbn.replace('-', '').replace(' ', '')
CleanIsbn(s) == Replace(Replace(s, "-"), " ")

\* f"{n}" for a non-negative int: its decimal digits
DigitChar(d) == <<"0", "1", "2", "3", "4", "5", "6", "7", "8", "9">>[d + 1]

RECURSIVE IntToStr(_)
IntToStr(n) == IF n < 10 THEN <<DigitChar(n)>> ELSE IntToStr(n \div 10) \o <<DigitChar(n % 10)>>

IsbnCoverUrl(clean) == PyStr(<<"https://covers.openlibrary.org/b/isbn/">> \o clean \o <<"-L.jpg">>)
IdCoverUrl(id) == PyStr(<<"https://covers.openlibrary.org/b/id/">> \o IntToStr(id) \o <<"-L.jpg">>)
CoverNotFound == PyStr(<<"https://placehold.co/200x300/e0e0e0/000000?text=Cover+Not+Found">>)
ErrorLoading == PyStr(<<"https://placehold.co/200x300/e0e0e0/000000?text=Error+Loading">>)

\* ------------------------------------------ the bibliographic API's answers
\* What requests.get(...) followed by res.raise_for_status() raises for the
\* answer res: requests.get raises ConnectionError or Timeout, and
\* raise_for_status raises HTTPError on a 4xx/5xx status.
RequestRaises(res) ==
  IF res.kind \in {"ConnectionError", "Timeout"} THEN res.kind
  ELSE IF res.status >= 400 THEN "HTTPError"
  ELSE "none"

\* ------------------------------------------------------------ lookup_cover
\* except requests.exceptions.RequestException (cover_service.py)
CoverExceptCatches_narrow(exc) == exc \in {"ConnectionError", "HTTPError"}

CoverExceptCatches(exc) == exc \in {"ConnectionError", "Timeout", "HTTPError"}

\* the URL derived from the first document of a non-empty answer
FirstDocUrl_idFirst(doc) ==
  LET isbn == Get(doc, "isbn", PyList(<<PyNone>>))
      cover_id == Get(doc, "cover_i", PyNone)
  IN IF Truthy(cover_id)
       THEN IdCoverUrl(cover_id.v)
     ELSE IF Truthy(isbn) /\ isbn.t = "list" /\ Truthy(isbn.v[1])
       THEN IsbnCoverUrl(CleanIsbn(isbn.v[1].v))
     ELSE CoverNotFound

FirstDocUrl(doc) ==
  LET isbn == Get(doc, "isbn", PyList(<<PyNone>>))
      cover_id == Get(doc, "cover_i", PyNone)
  IN IF Truthy(isbn) /\ isbn.t = "list" /\ Truthy(isbn.v[1])
       THEN IsbnCoverUrl(CleanIsbn(isbn.v[1].v))
     ELSE IF Truthy(cover_id)
       THEN IdCoverUrl(cover_id.v)
     ELSE CoverNotFound

\* the value the except clause of lookup_cover returns
CoverExceptValue_notFound == CoverNotFound

CoverExceptValue == ErrorLoading

lookup_cover_noExcept(res) ==
  IF RequestRaises(res) # "none" THEN [raised |-> TRUE, value |-> PyNone]
  ELSE IF ~Truthy(Get(res.json, "docs", PyNone))
    THEN [raised |-> FALSE, value |-> CoverNotFound]
  ELSE [raised |-> FALSE, value |-> FirstDocUrl(res.json.docs.v[1])]

\* lookup_cover on the API's answer res: the value returned, or raised = TRUE
\* when an exception leaves the function
lookup_cover(res) ==
  LET exc == RequestRaises(res)
  IN IF exc # "none"
       THEN IF CoverExceptCatches(exc)
              THEN [raised |-> FALSE, value |-> CoverExceptValue]
              ELSE [raised |-> TRUE, value |-> PyNone]
     ELSE IF ~Truthy(Get(res.json, "docs", PyNone))
       THEN [raised |-> FALSE, value |-> CoverNotFound]
     ELSE [raised |-> FALSE, value |-> FirstDocUrl(res.json.docs.v[1])]

\* ------------------------------------------------------------ search_books
\* if not title and not author
MissingParams_noneOnly(title, author) == title = PyNone /\ author = PyNone

MissingParams(title, author) == ~Truthy(title) /\ ~Truthy(author)

\* except requests.exceptions.RequestException (openlibrary_service.py)
SearchExceptCatches(exc) == exc \in {"ConnectionError", "Timeout", "HTTPError"}

\* the record appended to books for one raw document
BookOf(doc) ==
  LET isbn_list == Get(doc, "isbn", PyList(<<>>))
      cover_id == Get(doc, "cover_i", PyNone)
      isbn == IF Truthy(isbn_list) THEN isbn_list.v[1] ELSE PyNone
      cover_url == IF Truthy(isbn) THEN IsbnCoverUrl(CleanIsbn(isbn.v))
                   ELSE IF Truthy(cover_id) THEN IdCoverUrl(cover_id.v)
                   ELSE PyNone
  IN [title |-> Get(doc, "title", PyNone),
      author |-> Get(doc, "author_name", PyList(<<PyStr(<<"Unknown">>)>>)).v[1],
      isbn |-> isbn,
      cover_url |-> cover_url,
      publish_year |-> Get(doc, "first_publish_year", PyNone)]

\* s[:n]
Take(s, n) == SubSeq(s, 1, IF Len(s) < n THEN Len(s) ELSE n)

\* b.get("isbn") or b.get("cover_url")
Keeps(b) == Truthy(b.isbn) \/ Truthy(b.cover_url)

\* the books list after the loop over docs[:20] and the filter
SurvivingBooks_filterFirst(docs) ==
  Take(SelectSeq([i \in 1..Len(docs) |-> BookOf(docs[i])], Keeps), SearchTop)

SurvivingBooks(docs) ==
  LET top == Take(docs, SearchTop)
      books == [i \in 1..Len(top) |-> BookOf(top[i])]
  IN SelectSeq(books, Keeps)

\* the handling of an exception raised by the query of search_books
SearchOnException_absorb(exc) ==
  [status |-> 200, body |-> [count |-> 0, results |-> <<>>]]

SearchOnException(exc) ==
  IF SearchExceptCatches(exc)
    THEN [status |-> 503, body |-> [detail |-> "Open Library API error"]]
    ELSE [status |-> 500, body |-> [detail |-> "Internal Server Error"]]

\* search_books(title, author) when the API, if queried, answers res:
\* the HTTP status, the body, and the number of outbound API calls made
search_books(title, author, res) ==
  IF MissingParams(title, author)
    THEN [status |-> 200, calls |-> 0,
          body |-> [error |-> "Please provide at least a title or author"]]
  ELSE LET exc == RequestRaises(res)
       IN IF exc # "none"
            THEN [status |-> SearchOnException(exc).status, calls |-> 1,
                  body |-> SearchOnException(exc).body]
          ELSE LET books == SurvivingBooks(Get(res.json, "docs", PyList(<<>>)).v)
               IN [status |-> 200, calls |-> 1,
                   body |-> [count |-> Len(books), results |-> Take(books, SearchPage)]]

\* ------------------------------------------------------------ the inputs
\* ISBNs as the API prints them (characters), hyphens and spaces included
IsbnSamples ==
  { <<"0", "-", "7", "6", "5", "3", "-", "8", "3", "5", "2", "-", "5">>,
    <<"9", "7", "8", " ", "0", "-", "1", "4">>,
    <<"0", "1", "4", "0">> }

CoverIdSamples == {12345, 7}

IsbnFields ==
  {PyList(<<>>)} \cup {PyList(<<PyStr(i)>>) : i \in IsbnSamples}
  \cup {PyList(<<PyStr(<<"0", "1", "4", "0">>), PyStr(<<"9", "-", "9">>)>>)}

\* the documents of the API: isbn (an array of non-empty strings) and cover_i
\* (a positive numeric id) are optional
TitleOnlyDocs == {[title |-> PyStr(<<"Dune">>)]}
IsbnOnlyDocs == {[title |-> PyStr(<<"Dune">>), isbn |-> f] : f \in IsbnFields}
CoverOnlyDocs == {[title |-> PyStr(<<"Dune">>), cover_i |-> PyInt(c)] : c \in CoverIdSamples}
BothDocs ==
  {[title |-> PyStr(<<"Dune">>), isbn |-> f, cover_i |-> PyInt(c)] :
     f \in IsbnFields, c \in CoverIdSamples}
DocSet == TitleOnlyDocs \cup IsbnOnlyDocs \cup CoverOnlyDocs \cup BothDocs

\* sequences over S of length at most n
SeqsUpTo(S, n) == UNION {[1..k -> S] : k \in 0..n}

\* the failures of the bibliographic query
FailedAnswers ==
  {[kind |-> "ConnectionError"], [kind |-> "Timeout"],
   [kind |-> "http", status |-> 404], [kind |-> "http", status |-> 500]}

OkAnswer(docs) == [kind |-> "http", status |-> 200, json |-> [docs |-> PyList(docs)]]

\* the answers to the query of GET /books/covers
CoverAnswers ==
  FailedAnswers
  \cup {[kind |-> "http", status |-> 200, json |-> [numFound |-> PyInt(0)]]}
  \cup {OkAnswer(docs) : docs \in SeqsUpTo(DocSet, MaxDocs)}

\* the answers to the lookups of the fan-out
FanoutAnswers ==
  {[kind |-> "Timeout"],
   OkAnswer(<<>>),
   OkAnswer(<<[title |-> PyStr(<<"Dune">>),
               isbn |-> PyList(<<PyStr(<<"0", "-", "1", "4">>)>>)]>>),
   OkAnswer(<<[title |-> PyStr(<<"Dune">>), cover_i |-> PyInt(7)]>>)}

\* the raw documents of a search: documents with an isbn and/or a cover_i,
\* and documents lacking both
FullDoc ==
  [title |-> PyStr(<<"Verity">>), author_name |-> PyList(<<PyStr(<<"Hoover">>)>>),
   isbn |-> PyList(<<PyStr(<<"9", "7", "8", "-", "1">>)>>), cover_i |-> PyInt(7),
   first_publish_year |-> PyInt(2018)]
IsbnDoc == [title |-> PyStr(<<"Verity">>), isbn |-> PyList(<<PyStr(<<"9", "7", "8", " ", "1">>)>>)]
CoverDoc == [title |-> PyStr(<<"Verity">>), isbn |-> PyList(<<>>), cover_i |-> PyInt(12345)]
LackDoc == [title |-> PyStr(<<"Verity">>), author_name |-> PyList(<<PyStr(<<"Hoover">>)>>)]
HaveDocs == <<FullDoc, IsbnDoc, CoverDoc>>

\* raw lists: a run of documents with data, a run lacking both, a run with data
RawList(a, b, c) ==
  [i \in 1..(a + b + c) |-> IF i > a /\ i <= a + b THEN LackDoc ELSE HaveDocs[(i % 3) + 1]]

RawLists ==
  UNION {UNION {{RawList(a, b, c) : c \in 0..(MaxRaw - a - b)} :
                b \in 0..(MaxRaw - a)} : a \in 0..MaxRaw}

SearchAnswers ==
  FailedAnswers
  \cup {[kind |-> "http", status |-> 200, json |-> [numFound |-> PyInt(0)]]}
  \cup {OkAnswer(docs) : docs \in RawLists}

\* the query parameters of GET /books/search (Optional[str])
Titles == {PyNone, PyStr(<<>>), PyStr(<<"Verity">>)}
Authors == {PyNone, PyStr(<<>>), PyStr(<<"Hoover">>)}

\* the items the AI step may list; one lacks a required field
Book1 == [title |-> "Dune", author |-> "Herbert", reasoning |-> "classic"]
Book2 == [title |-> "Verity", author |-> "Hoover", reasoning |-> "thriller"]
BadItem == [title |-> "Emma", author |-> "Austen"]
AiItems == {Book1, Book2, BadItem}

\* the outcomes of client.models.generate_content
AiOutcomes ==
  {[kind |-> "error"], [kind |-> "timeout"], [kind |-> "text", json |-> FALSE]}
  \cup {[kind |-> "text", json |-> TRUE, items |-> s] : s \in SeqsUpTo(AiItems, MaxCands)}

\* ------------------------------------------- get_recommendations_from_ai
\* AgentRecommendationList.model_validate(json.loads(response.text)) on the
\* outcome of the model call: raised, or the validated recommendations
ModelValidate_lenient(out) ==
  IF out.kind # "text" \/ ~out.json
    THEN [raised |-> TRUE, items |-> <<>>]
    ELSE [raised |-> FALSE,
          items |-> SelectSeq(out.items,
                      LAMBDA it : DOMAIN it = {"title", "author", "reasoning"})]

ModelValidate(out) ==
  IF out.kind # "text" THEN [raised |-> TRUE, items |-> <<>>]
  ELSE IF ~out.json THEN [raised |-> TRUE, items |-> <<>>]
  ELSE IF \E i \in 1..Len(out.items) : DOMAIN out.items[i] # {"title", "author", "reasoning"}
    THEN [raised |-> TRUE, items |-> <<>>]
  ELSE [raised |-> FALSE, items |-> out.items]

\* cover_tasks: one run_in_threadpool(lookup_cover, ...) per recommendation
CoverTasks(items) ==
  [i \in 1..Len(items) |->
     [title |-> items[i].title, author |-> items[i].author, state |-> "running",
      answer |-> PyNone, raised |-> FALSE, value |-> PyNone]]

\* await asyncio.gather(*cover_tasks) resumes when every task is done, or as
\* soon as one task has raised (return_exceptions is False)
GatherWakes_first(ts) == ts = <<>> \/ \E i \in 1..Len(ts) : ts[i].state = "done"

GatherWakes(ts) ==
  \/ \A i \in 1..Len(ts) : ts[i].state = "done"
  \/ \E i \in 1..Len(ts) : ts[i].state = "done" /\ ts[i].raised

\* the list asyncio.gather returns: the tasks' values in the order of the tasks
GatherResults_byCompletion(ts, fin) ==
  [k \in 1..Len(ts) |-> IF k <= Len(fin) THEN ts[fin[k]].value ELSE PyNone]

GatherResults(ts, fin) == [i \in 1..Len(ts) |-> ts[i].value]

\* [BookRecommendation(...) for item, url in zip(recommendations, cover_urls)]
Zip(items, urls) ==
  [i \in 1..(IF Len(items) < Len(urls) THEN Len(items) ELSE Len(urls)) |->
     [title |-> items[i].title, author |-> items[i].author,
      reasoning |-> items[i].reasoning, cover_url |-> urls[i]]]

\* ------------------------------------------------------------------- state
VARIABLES
  pc,            \* "idle", "ai" (awaiting the model), "gather", "done"
  request,       \* the request being served
  aiOutcome,     \* what the model call produced
  agent_result,  \* the validated recommendations
  tasks,         \* the cover lookups launched by the fan-out
  finished,      \* the indices of the lookups, in order of completion
  answer,        \* the API's answer to the query of a search or a cover request
  status,        \* HTTP status of the response, 0 before there is one
  body,          \* the response's body
  apiCalls       \* outbound calls to the bibliographic API

vars == <<pc, request, aiOutcome, agent_result, tasks, finished, answer, status, body, apiCalls>>

Init ==
  /\ pc = "idle"
  /\ request = PyNone
  /\ aiOutcome = PyNone
  /\ agent_result = <<>>
  /\ tasks = <<>>
  /\ finished = <<>>
  /\ answer = PyNone
  /\ status = 0
  /\ body = PyNone
  /\ apiCalls = 0

\* POST /books/recommendations: the handler runs up to the await of the model call
PostRecommendations(prompt) ==
  /\ pc = "idle"
  /\ pc' = "ai"
  /\ request' = [endpoint |-> "recommendations", prompt |-> prompt]
  /\ UNCHANGED <<aiOutcome, agent_result, tasks, finished, answer, status, body, apiCalls>>

\* the model call ends with out: the handler validates, and either raises the
\* HTTPException of its except clause or launches the lookups and awaits gather
AiReturns(out) ==
  /\ pc = "ai"
  /\ aiOutcome' = out
  /\ IF ModelValidate(out).raised
       THEN /\ status' = 500
            /\ body' = [detail |-> "Error generating recommendations"]
            /\ pc' = "done"
            /\ UNCHANGED <<agent_result, tasks>>
       ELSE /\ agent_result' = ModelValidate(out).items
            /\ tasks' = CoverTasks(ModelValidate(out).items)
            /\ pc' = "gather"
            /\ UNCHANGED <<status, body>>
  /\ UNCHANGED <<request, finished, answer, apiCalls>>

\* the worker thread of lookup i runs lookup_cover; the API answers ans
LookupCompletes(i, ans) ==
  /\ i \in 1..Len(tasks)
  /\ tasks[i].state = "running"
  /\ tasks' = [tasks EXCEPT ![i] =
                 [title |-> @.title, author |-> @.author, state |-> "done",
                  answer |-> ans, raised |-> lookup_cover(ans).raised,
                  value |-> lookup_cover(ans).value]]
  /\ finished' = Append(finished, i)
  /\ apiCalls' = apiCalls + 1
  /\ UNCHANGED <<pc, request, aiOutcome, agent_result, answer, status, body>>

\* the await of gather resumes: the handler zips and returns, or its except
\* clause turns the exception of a lookup into the HTTPException
GatherReturns ==
  /\ pc = "gather"
  /\ GatherWakes(tasks)
  /\ IF \E i \in 1..Len(tasks) : tasks[i].state = "done" /\ tasks[i].raised
       THEN /\ status' = 500
            /\ body' = [detail |-> "Error generating recommendations"]
       ELSE /\ status' = 200
            /\ body' = [recommendations |->
                          Zip(agent_result, GatherResults(tasks, finished))]
  /\ pc' = "done"
  /\ UNCHANGED <<request, aiOutcome, agent_result, tasks, finished, answer, apiCalls>>

\* GET /books/search
SearchBooksEndpoint(title, author, ans) ==
  LET r == search_books(title, author, ans)
  IN /\ pc = "idle"
     /\ pc' = "done"
     /\ request' = [endpoint |-> "search", title |-> title, author |-> author]
     /\ answer' = IF r.calls = 0 THEN PyNone ELSE ans
     /\ status' = r.status
     /\ body' = r.body
     /\ apiCalls' = r.calls
     /\ UNCHANGED <<aiOutcome, agent_result, tasks, finished>>

\* GET /books/covers
GetCover(title, author, ans) ==
  /\ pc = "idle"
  /\ pc' = "done"
  /\ request' = [endpoint |-> "covers", title |-> title, author |-> author]
  /\ answer' = ans
  /\ IF lookup_cover(ans).raised
       THEN /\ status' = 500
            /\ body' = [detail |-> "Internal Server Error"]
       ELSE /\ status' = 200
            /\ body' = [title |-> title, author |-> author,
                        cover_url |-> lookup_cover(ans).value]
  /\ apiCalls' = 1
  /\ UNCHANGED <<aiOutcome, agent_result, tasks, finished>>

Next ==
  \/ \E prompt \in {"a sci-fi book"} : PostRecommendations(prompt)
  \/ pc = "ai" /\ \E out \in AiOutcomes : AiReturns(out)
  \/ \E i \in 1..Len(tasks), ans \in FanoutAnswers : LookupCompletes(i, ans)
  \/ GatherReturns
  \/ pc = "idle" /\ \E title \in Titles, author \in Authors, ans \in SearchAnswers :
                      SearchBooksEndpoint(title, author, ans)
  \/ pc = "idle" /\ \E author \in Authors \ {PyNone}, ans \in CoverAnswers :
                      GetCover(PyStr(<<"Dune">>), author, ans)

Spec == Init /\ [][Next]_vars

\* ------------------------------------------------------------- the claims
IsRecommend == request # PyNone /\ request.endpoint = "recommendations"
IsSearch == request # PyNone /\ request.endpoint = "search"
IsCovers == request # PyNone /\ request.endpoint = "covers"

\* the query failed: connection error, timeout or HTTP error status
Failed(ans) == ans.kind \in {"ConnectionError", "Timeout"} \/ ans.status >= 400

\* the documents of a clean answer
DocsOf(ans) == IF "docs" \in DOMAIN ans.json THEN ans.json.docs.v ELSE <<>>

\* a non-empty URL string
NonEmptyUrl(u) == u.t = "str" /\ Len(u.v) > 0

\* the AI step produced a list of candidates that validates
AiSucceeded ==
  /\ aiOutcome # PyNone
  /\ aiOutcome.kind = "text"
  /\ aiOutcome.json
  /\ \A i \in 1..Len(aiOutcome.items) :
       {"title", "author", "reasoning"} \subseteq DOMAIN aiOutcome.items[i]

\* C1: a successful recommendation response has one entry per candidate of
\* the AI step, and entry i carries candidate i's title, author and reasoning
\* with the URL resolved by the lookup launched for candidate i, whatever the
\* order in which the lookups completed.
C1_PositionalZip ==
  (IsRecommend /\ status = 200) =>
    /\ Len(body.recommendations) = Len(aiOutcome.items)
    /\ \A i \in 1..Len(aiOutcome.items) :
         /\ body.recommendations[i].title = aiOutcome.items[i].title
         /\ body.recommendations[i].author = aiOutcome.items[i].author
         /\ body.recommendations[i].reasoning = aiOutcome.items[i].reasoning
         /\ tasks[i].title = aiOutcome.items[i].title
         /\ tasks[i].author = aiOutcome.items[i].author
         /\ tasks[i].state = "done"
         /\ body.recommendations[i].cover_url = tasks[i].value

\* three candidates, the lookup of candidate 2 completes last, and its URL
\* differs from the other two
C1_Witness ==
  /\ IsRecommend /\ status = 200
  /\ Len(aiOutcome.items) = 3
  /\ finished = <<1, 3, 2>>
  /\ body.recommendations[2].cover_url # body.recommendations[1].cover_url
  /\ body.recommendations[2].cover_url # body.recommendations[3].cover_url
  /\ body.recommendations[1].title # body.recommendations[2].title

\* C2: lookup_cover never fails outward: whatever the query's outcome
\* (network error, timeout, HTTP error status, no documents, a first document
\* with or without isbn and cover_i) it returns a non-empty URL string, in
\* GET /books/covers and in every lookup of the fan-out, so every cover_url
\* of a recommendation is non-empty.
C2_NeverFailsOutward ==
  /\ (IsCovers /\ pc = "done") =>
       status = 200 /\ "cover_url" \in DOMAIN body /\ NonEmptyUrl(body.cover_url)
  /\ \A i \in 1..Len(tasks) :
       tasks[i].state = "done" => ~tasks[i].raised /\ NonEmptyUrl(tasks[i].value)
  /\ (IsRecommend /\ status = 200) =>
       \A i \in 1..Len(body.recommendations) :
         NonEmptyUrl(body.recommendations[i].cover_url)

\* a cover request whose query hit an HTTP error status is answered with a URL
C2_Witness ==
  /\ IsCovers /\ pc = "done"
  /\ answer.kind = "http" /\ answer.status = 500
  /\ status = 200 /\ NonEmptyUrl(body.cover_url)

\* C3: when the AI step succeeded, the finished request is a successful
\* response with every candidate; an entry whose lookup failed carries a
\* placeholder, and every entry carries the URL of its own lookup.
C3_FailureIsolation ==
  (IsRecommend /\ AiSucceeded /\ pc = "done") =>
    /\ status = 200
    /\ Len(body.recommendations) = Len(aiOutcome.items)
    /\ \A i \in 1..Len(aiOutcome.items) :
         /\ body.recommendations[i].title = aiOutcome.items[i].title
         /\ Failed(tasks[i].answer) =>
              body.recommendations[i].cover_url =
                PyStr(<<"https://placehold.co/200x300/e0e0e0/000000?text=Error+Loading">>)
         /\ (~Failed(tasks[i].answer) /\ DocsOf(tasks[i].answer) # <<>>
               /\ "cover_i" \in DOMAIN DocsOf(tasks[i].answer)[1]) =>
              body.recommendations[i].cover_url =
                PyStr(<<"https://covers.openlibrary.org/b/id/", "7", "-L.jpg">>)
         /\ (~Failed(tasks[i].answer) /\ DocsOf(tasks[i].answer) # <<>>
               /\ "isbn" \in DOMAIN DocsOf(tasks[i].answer)[1]) =>
              body.recommendations[i].cover_url =
                PyStr(<<"https://covers.openlibrary.org/b/isbn/", "0", "1", "4", "-L.jpg">>)

\* one lookup of three timed out, the first to complete, and the other two
\* entries carry real cover URLs
C3_Witness ==
  /\ IsRecommend /\ status = 200
  /\ Len(tasks) = 3
  /\ finished[1] = 2
  /\ tasks[2].answer.kind = "Timeout"
  /\ ~Failed(tasks[1].answer) /\ DocsOf(tasks[1].answer) # <<>>
  /\ ~Failed(tasks[3].answer) /\ DocsOf(tasks[3].answer) # <<>>
  /\ body.recommendations[2].cover_url # body.recommendations[1].cover_url

\* the first document carries an ISBN / a cover id
CarriesIsbn(doc) == "isbn" \in DOMAIN doc /\ doc.isbn.v # <<>>
CarriesCoverId(doc) == "cover_i" \in DOMAIN doc

\* a string without its hyphens and spaces
Stripped(str) == SelectSeq(str, LAMBDA c : c \notin {"-", " "})

\* C4: with at least one document, the URL comes from the first document
\* only: the ISBN URL of its first ISBN without hyphens and spaces if it
\* carries an ISBN (also when it carries a cover_i), else the id URL of its
\* cover_i, else the 'cover not found' placeholder.
C4_UrlPriority ==
  (IsCovers /\ pc = "done" /\ ~Failed(answer) /\ DocsOf(answer) # <<>>) =>
    LET doc == DocsOf(answer)[1]
    IN /\ status = 200
       /\ CarriesIsbn(doc) =>
            body.cover_url.v = <<"https://covers.openlibrary.org/b/isbn/">>
                                 \o Stripped(doc.isbn.v[1].v) \o <<"-L.jpg">>
       /\ (CarriesIsbn(doc)
             /\ doc.isbn.v[1].v = <<"0", "-", "7", "6", "5", "3", "-", "8", "3", "5", "2", "-", "5">>) =>
            body.cover_url.v = <<"https://covers.openlibrary.org/b/isbn/",
                                 "0", "7", "6", "5", "3", "8", "3", "5", "2", "5", "-L.jpg">>
       /\ (~CarriesIsbn(doc) /\ CarriesCoverId(doc) /\ doc.cover_i.v = 12345) =>
            body.cover_url.v = <<"https://covers.openlibrary.org/b/id/",
                                 "1", "2", "3", "4", "5", "-L.jpg">>
       /\ (~CarriesIsbn(doc) /\ CarriesCoverId(doc) /\ doc.cover_i.v = 7) =>
            body.cover_url.v = <<"https://covers.openlibrary.org/b/id/", "7", "-L.jpg">>
       /\ (~CarriesIsbn(doc) /\ ~CarriesCoverId(doc)) =>
            body.cover_url.v =
              <<"https://placehold.co/200x300/e0e0e0/000000?text=Cover+Not+Found">>

\* the first of two documents carries the hyphenated ISBN and a cover_i, and
\* the ISBN URL was returned
C4_Witness ==
  /\ IsCovers /\ pc = "done" /\ ~Failed(answer)
  /\ Len(DocsOf(answer)) = 2
  /\ CarriesIsbn(DocsOf(answer)[1]) /\ CarriesCoverId(DocsOf(answer)[1])
  /\ ~CarriesIsbn(DocsOf(answer)[2])
  /\ DocsOf(answer)[1].isbn.v[1].v = <<"0", "-", "7", "6", "5", "3", "-", "8", "3", "5", "2", "-", "5">>
  /\ body.cover_url.v = <<"https://covers.openlibrary.org/b/isbn/",
                          "0", "7", "6", "5", "3", "8", "3", "5", "2", "5", "-L.jpg">>

\* C5: a clean answer without documents gives the 'cover not found'
\* placeholder, a failed query gives the 'error loading' placeholder, and the
\* two placeholders differ.
C5_PlaceholdersDistinct ==
  (IsCovers /\ pc = "done") =>
    /\ (~Failed(answer) /\ DocsOf(answer) = <<>>) =>
         /\ status = 200
         /\ body.cover_url.v =
              <<"https://placehold.co/200x300/e0e0e0/000000?text=Cover+Not+Found">>
    /\ Failed(answer) =>
         /\ status = 200
         /\ body.cover_url.v =
              <<"https://placehold.co/200x300/e0e0e0/000000?text=Error+Loading">>
    /\ \A other \in CoverAnswers :
         (Failed(answer) /\ ~Failed(other) /\ DocsOf(other) = <<>>) =>
           lookup_cover(other).value # body.cover_url

\* a cover request whose query timed out got the 'error loading' placeholder
C5_Witness ==
  /\ IsCovers /\ pc = "done"
  /\ answer.kind = "Timeout"
  /\ body.cover_url = ErrorLoading
  /\ ErrorLoading # CoverNotFound

\* a raw document lacks both isbn and cover_i
LacksBoth(doc) == ~CarriesIsbn(doc) /\ ~CarriesCoverId(doc)

\* the positions lo..hi of docs whose document lacks both
LackingIn(docs, lo, hi) == {i \in lo..hi : i <= Len(docs) /\ LacksBoth(docs[i])}

\* the number of documents among the first n of docs that carry data
CountKept(docs, n) == Cardinality({i \in 1..n : i <= Len(docs) /\ ~LacksBoth(docs[i])})

\* a search answered cleanly with 25 raw documents of which 5 lack both
Scenario25 ==
  /\ IsSearch /\ answer # PyNone /\ ~Failed(answer)
  /\ Len(DocsOf(answer)) = 25
  /\ CountKept(DocsOf(answer), 25) = 20

\* C6 (as stated): for every raw list of 25 documents of which 5 lack both
\* isbn and cover_i, count equals 20 and results has at most 10 entries.
C6_Original ==
  Scenario25 => (body.count = 20 /\ Len(body.results) <= 10)

\* C6 (amended): search keeps the top 20 raw documents, drops those lacking
\* both isbn and cover_i, reports count as the number of survivors and returns
\* the first 10 of them; with 25 documents of which 5 lack both, count is 20
\* less the number of lacking documents among the first 20, hence 15 to 20.
C6_CountAfterTruncation ==
  (IsSearch /\ answer # PyNone /\ ~Failed(answer)) =>
    /\ status = 200
    /\ body.count = CountKept(DocsOf(answer), 20)
    /\ Len(body.results) = (IF body.count < 10 THEN body.count ELSE 10)
    /\ \A i \in 1..Len(body.results) :
         Truthy(body.results[i].isbn) \/ Truthy(body.results[i].cover_url)
    /\ Scenario25 =>
         /\ body.count = 20 - Cardinality(LackingIn(DocsOf(answer), 1, 20))
         /\ body.count = 15 + Cardinality(LackingIn(DocsOf(answer), 21, 25))
         /\ Len(body.results) = 10

\* 25 documents, 5 lacking both, 3 of them among the first 20: count is 17
C6_Witness ==
  /\ Scenario25
  /\ LacksBoth(DocsOf(answer)[18]) /\ LacksBoth(DocsOf(answer)[22])
  /\ body.count = 17
  /\ Len(body.results) = 10

\* C7: when the model call fails or times out, or its text does not parse or
\* validate, the request ends with status 500 and no recommendations, and no
\* cover lookup is launched.
C7_AiFailureNoPartial ==
  (IsRecommend /\ aiOutcome # PyNone /\ ~AiSucceeded) =>
    /\ pc = "done"
    /\ status = 500
    /\ "recommendations" \notin DOMAIN body
    /\ tasks = <<>>
    /\ apiCalls = 0

\* the model listed two valid items and then one lacking a field
C7_Witness ==
  /\ IsRecommend /\ aiOutcome # PyNone
  /\ aiOutcome.kind = "text" /\ aiOutcome.json
  /\ Len(aiOutcome.items) = 3
  /\ aiOutcome.items[1] = Book1 /\ aiOutcome.items[2] = Book2
  /\ aiOutcome.items[3] = BadItem
  /\ status = 500

\* a query parameter is set: present and not empty
IsSet(param) == param # PyNone /\ param # PyStr(<<>>)

\* C8: a search with neither title nor author set returns the 'Please provide
\* at least a title or author' payload as a normal result with no call to the
\* bibliographic API; with one of them set the API is queried.
C8_MissingParams ==
  (IsSearch /\ pc = "done") =>
    /\ (~IsSet(request.title) /\ ~IsSet(request.author)) =>
         /\ status = 200
         /\ body = [error |-> "Please provide at least a title or author"]
         /\ apiCalls = 0
    /\ (IsSet(request.title) \/ IsSet(request.author)) =>
         /\ apiCalls = 1
         /\ "error" \notin DOMAIN body

\* an empty title and no author: the error payload, no call
C8_Witness ==
  /\ IsSearch /\ pc = "done"
  /\ request.title = PyStr(<<>>) /\ request.author = PyNone
  /\ "error" \in DOMAIN body
  /\ apiCalls = 0

\* C9: a failure of the bibliographic API in a search surfaces as status 503,
\* with neither a {count, results} payload nor a placeholder, while the cover
\* request absorbs the same failure into a placeholder URL.
C9_SearchSurfacesFailure ==
  /\ (IsSearch /\ answer # PyNone /\ Failed(answer)) =>
       /\ status = 503
       /\ DOMAIN body = {"detail"}
  /\ (IsCovers /\ pc = "done" /\ Failed(answer)) =>
       /\ status = 200
       /\ body.cover_url.v[1] \in
            {"https://placehold.co/200x300/e0e0e0/000000?text=Error+Loading",
             "https://placehold.co/200x300/e0e0e0/000000?text=Cover+Not+Found"}

\* a search whose query was refused the connection ended with 503
C9_Witness ==
  /\ IsSearch /\ answer # PyNone
  /\ answer.kind = "ConnectionError"
  /\ status = 503

\* C10: every lookup is launched before any is awaited, and the request
\* finishes only after every launched lookup has completed: no finished
\* request has a lookup in flight, and a lookup only ever goes from running
\* to done.
C10_JoinAll ==
  (IsRecommend /\ AiSucceeded) =>
    /\ Len(tasks) = Len(aiOutcome.items)
    /\ \A i \in 1..Len(tasks) : tasks[i].state \in {"running", "done"}
    /\ pc = "done" =>
         /\ \A i \in 1..Len(tasks) : tasks[i].state = "done"
         /\ Len(finished) = Len(tasks)

\* three lookups completed in the order 3, 1, 2 before the request finished
C10_Witness ==
  /\ IsRecommend /\ pc = "done"
  /\ Len(tasks) = 3
  /\ finished = <<3, 1, 2>>
  /\ status = 200

====
